---- MODULE Spec2Model ----
(***************************************************************************)
(* Guest virtual-memory introspection of icebox: the x86-64 page-table     *)
(* walker, the page-fault injection policy and the paged-memory accessors  *)
(* of nt::Os (src/src/icebox/icebox/nt/nt_memory.cpp).                     *)
(*                                                                         *)
(* A uint64_t is modelled exactly, as the set of the positions of its 1    *)
(* bits (a subset of 0..63): 0x1000 is {12}, 0x3FFFC0000000 is 30..45.     *)
(***************************************************************************)
EXTENDS Integers, Sequences, FiniteSets, TLC

VARIABLES
    mem,              \* guest physical memory: physical address -> 64-bit entry
    cr3, cr8, cs,     \* registers of the paused VCPU
    num_page_faults_, \* nt::Os::num_page_faults_
    injected_total,   \* history: number of inject_interrupt calls made so far
    call,             \* history: the last accessor call, its arguments, result and external calls
    core              \* the Core built by the last core::make_core, and the calls made to build it

vars == <<mem, cr3, cr8, cs, num_page_faults_, injected_total, call, core>>

(***************************************************************************)
(* uint64_t arithmetic                                                     *)
(***************************************************************************)
Bits == 0..63

BitNot(a) == Bits \ a
BitAnd(a, b) == a \cap b
BitOr(a, b) == a \cup b
BitXor(a, b) == (a \ b) \cup (b \ a)
Shl(a, n) == {b + n : b \in a} \cap Bits
Shr(a, n) == {b - n : b \in a} \cap Bits

\* a + b modulo 2^64 (sum without carries, plus the carries shifted left)
RECURSIVE Add(_, _)
Add(a, b) == IF b = {} THEN a ELSE Add(BitXor(a, b), Shl(BitAnd(a, b), 1))

\* a * b modulo 2^64
RECURSIVE Mul(_, _)
Mul(a, b) ==
    IF b = {} THEN {}
    ELSE LET i == CHOOSE x \in b : TRUE
         IN  Add(Shl(a, i), Mul(a, b \ {i}))

\* unsigned a > b
Gt(a, b) ==
    LET d == BitXor(a, b)
    IN  d # {} /\ (CHOOSE x \in d : \A y \in d : y <= x) \in a

\* the uint64_t of a small natural number
RECURSIVE U(_)
U(n) == IF n = 0 THEN {} ELSE (IF n % 2 = 1 THEN {0} ELSE {}) \cup Shl(U(n \div 2), 1)

PAGE_SIZE == 4096
PAGE_FAULT == 14
SizeofMMPTE == 8

PageSizeWord == U(PAGE_SIZE)
EntrySizeWord == U(SizeofMMPTE)
U8 == U(8)

(***************************************************************************)
(* nt_mmu.hpp: MMPTE and virt_t bit fields                                 *)
(***************************************************************************)
Valid(e) == 0 \in e
LargePage(e) == 7 \in e
PageFrameNumber(e) == Shr(BitAnd(e, 12..47), 12)

virt_offset(v) == BitAnd(v, 0..11)
virt_pt(v) == Shr(BitAnd(v, 12..20), 12)
virt_pd(v) == Shr(BitAnd(v, 21..29), 21)
virt_pdp(v) == Shr(BitAnd(v, 30..38), 30)
virt_pml4(v) == Shr(BitAnd(v, 39..47), 39)

\* the bytes of a uint64_t in the memory of the (little-endian) host
host_bytes(v) == [i \in 0..7 |-> Shr(BitAnd(v, (8 * i)..(8 * i + 7)), 8 * i)]

\* read_le64: assemble 8 bytes, least significant first
RECURSIVE le_from(_, _)
le_from(bytes, i) == IF i > 7 THEN {} ELSE BitOr(Shl(bytes[i], 8 * i), le_from(bytes, i + 1))
read_le64(v) == le_from(host_bytes(v), 0)

(***************************************************************************)
(* External calls, as recorded in call.ev                                  *)
(***************************************************************************)
Ev(c, addr, size, dtb, code, ok) ==
    [call |-> c, addr |-> addr, size |-> size, dtb |-> dtb, code |-> code, ok |-> ok]

\* memory::read_physical of one page-table entry: fails outside guest RAM
read_physical(m, addr, size) ==
    [ok  |-> addr \in DOMAIN m,
     val |-> IF addr \in DOMAIN m THEN m[addr] ELSE {},
     ev  |-> Ev("read_physical", addr, size, {}, 0, addr \in DOMAIN m)]

(***************************************************************************)
(* nt_memory.cpp                                                           *)
(***************************************************************************)
KernelMask == 52..63        \* 0xFFF0000000000000

is_kernel_address(ptr) == BitAnd(ptr, KernelMask) # {}

\* mutants: a mask one bit too wide, one bit too narrow
mask_one_more(bits) == BitNot(Shl(BitNot({}), bits + 1))
mask_one_less(bits) == BitNot(Shl(BitNot({}), bits - 1))

mask(bits) == BitNot(Shl(BitNot({}), bits))

\* mutant: the offset inside the page is dropped
physical_page_no_offset(pfn, offset) == [ptr |-> pfn, valid_page |-> TRUE, zero_page |-> FALSE]

physical_page(pfn, offset) == [ptr |-> Add(pfn, offset), valid_page |-> TRUE, zero_page |-> FALSE]

\* mutant: a page that is not present is reported as a zero page
page_fault_required_zero_page == [ptr |-> {}, valid_page |-> FALSE, zero_page |-> TRUE]

page_fault_required == [ptr |-> {}, valid_page |-> FALSE, zero_page |-> FALSE]

\* mutant: the low 12 bits of the dtb are not masked off
read_pml4e_unmasked(m, virt, dtb) ==
    read_physical(m, Add(dtb, Mul(virt_pml4(virt), U8)), SizeofMMPTE)

read_pml4e(m, virt, dtb) ==
    LET pml4e_base == BitAnd(dtb, Shl(mask(40), 12))
        pml4e_ptr  == Add(pml4e_base, Mul(virt_pml4(virt), U8))
    IN  read_physical(m, pml4e_ptr, SizeofMMPTE)

read_pdpe(m, virt, pml4e) ==
    LET pdpe_ptr == Add(Mul(PageFrameNumber(pml4e), PageSizeWord), Mul(virt_pdp(virt), EntrySizeWord))
    IN  read_physical(m, pdpe_ptr, SizeofMMPTE)

read_pte(m, virt, pde) ==
    LET pte_ptr == Add(Mul(PageFrameNumber(pde), PageSizeWord), Mul(virt_pt(virt), EntrySizeWord))
    IN  read_physical(m, pte_ptr, SizeofMMPTE)

\* mutant: the PD is indexed with the PT index
read_pde_pt_index(m, virt, pdpe) ==
    read_physical(m, Add(Mul(PageFrameNumber(pdpe), PageSizeWord), Mul(virt_pt(virt), EntrySizeWord)), SizeofMMPTE)

read_pde(m, virt, pdpe) ==
    LET pde_ptr == Add(Mul(PageFrameNumber(pdpe), PageSizeWord), Mul(virt_pd(virt), EntrySizeWord))
    IN  read_physical(m, pde_ptr, SizeofMMPTE)

\* an opt<ntphy_t> and the transport reads made to compute it
Nothing(ev) == [has |-> FALSE, val |-> page_fault_required, ev |-> ev]
Some(v, ev) == [has |-> TRUE, val |-> v, ev |-> ev]

\* the walker, ::virtual_to_physical
virtual_to_physical(m, ptr, proc, dtb) ==
    LET virt  == read_le64(ptr)
        pml4e == read_pml4e(m, virt, dtb)
        pdpe  == read_pdpe(m, virt, pml4e.val)
        pde   == read_pde(m, virt, pdpe.val)
        pte   == read_pte(m, virt, pde.val)
        ev1   == <<pml4e.ev>>
        ev2   == <<pml4e.ev, pdpe.ev>>
        ev3   == <<pml4e.ev, pdpe.ev, pde.ev>>
        ev4   == <<pml4e.ev, pdpe.ev, pde.ev, pte.ev>>
    IN  IF ~pml4e.ok THEN Nothing(ev1)
        ELSE IF ~Valid(pml4e.val) THEN Some(page_fault_required, ev1)
        ELSE IF ~pdpe.ok THEN Nothing(ev2)
        ELSE IF ~Valid(pdpe.val) THEN Some(page_fault_required, ev2)
        ELSE IF LargePage(pdpe.val)     \* 1g page
             THEN LET offset == BitAnd(ptr, mask(30))
                      base   == BitAnd(pdpe.val, Shl(mask(22), 30))
                  IN  Some(physical_page(base, offset), ev2)
        ELSE IF ~pde.ok THEN Nothing(ev3)
        ELSE IF ~Valid(pde.val) THEN Some(page_fault_required, ev3)
        ELSE IF LargePage(pde.val)      \* 2mb page
             THEN LET offset == BitAnd(ptr, mask(21))
                      base   == BitAnd(pde.val, Shl(mask(31), 21))
                  IN  Some(physical_page(base, offset), ev3)
        ELSE IF ~pte.ok THEN Nothing(ev4)
        ELSE IF ~Valid(pte.val) THEN Some(page_fault_required, ev4)
        ELSE Some(physical_page(Mul(PageFrameNumber(pte.val), PageSizeWord), virt_offset(virt)), ev4)

dispatch == 2               \* irql_e::dispatch

read_irql(r8) == r8

\* mutant: irql > irql_e::dispatch
irql_gt_dispatch(irql) == Gt(irql, U(dispatch))

\* irql >= irql_e::dispatch, on the values CR8 can hold
irql_ge_dispatch(irql) == ~Gt(U(dispatch), irql)

\* nt::is_user_mode: the requested privilege level of the selector is not 0
is_user_mode(sel) == BitAnd(sel, U(3)) # {}

\* os.vm_area_find: the VMA of the process that holds addr
vm_area_find(proc, addr) ==
    LET hit == {v \in proc.vmas : ~Gt(v.addr, addr) /\ Gt(Add(v.addr, v.size), addr)}
    IN  IF hit = {} THEN [has |-> FALSE, vma |-> [id |-> 0, addr |-> {}, size |-> {}, span |-> FALSE]]
        ELSE [has |-> TRUE, vma |-> CHOOSE v \in hit : TRUE]

\* os.vm_area_span: the extent of a VMA, when it can be read
vm_area_span(proc, vma) == [has |-> vma.span, addr |-> vma.addr, size |-> vma.size]

\* mutant: CR3 is read and compared before the IRQL
may_inject_page_fault_cr3_first(r3, r8, proc, dtb, src) ==
    LET e_cr8    == Ev("read_cr8", {}, 0, {}, 0, TRUE)
        e_cr3    == Ev("read_cr3", {}, 0, {}, 0, TRUE)
        opt_vma  == vm_area_find(proc, src)
        e_find   == Ev("vm_area_find", src, 0, {}, 0, opt_vma.has)
        vma_span == vm_area_span(proc, opt_vma.vma)
        e_span   == Ev("vm_area_span", opt_vma.vma.addr, 0, {}, 0, vma_span.has)
        no(ev)   == [ok |-> FALSE, ev |-> ev]
    IN  IF is_kernel_address(src) THEN no(<<>>)
        ELSE IF proc.null THEN no(<<>>)
        ELSE IF r3 # proc.kdtb /\ r3 # proc.udtb THEN no(<<e_cr3>>)
        ELSE IF irql_ge_dispatch(read_irql(r8)) THEN no(<<e_cr3, e_cr8>>)
        ELSE IF ~opt_vma.has THEN no(<<e_cr3, e_cr8, e_find>>)
        ELSE IF ~vma_span.has \/ Gt(Add(src, PageSizeWord), Add(vma_span.addr, vma_span.size))
             THEN no(<<e_cr3, e_cr8, e_find, e_span>>)
        ELSE [ok |-> TRUE, ev |-> <<e_cr3, e_cr8, e_find, e_span>>]

\* try_inject_page_fault, the checks: whether a fault may be injected for src,
\* and the registers and VMAs looked at to decide it
may_inject_page_fault(r3, r8, proc, dtb, src) ==
    LET e_cr8    == Ev("read_cr8", {}, 0, {}, 0, TRUE)
        e_cr3    == Ev("read_cr3", {}, 0, {}, 0, TRUE)
        irql     == read_irql(r8)
        opt_vma  == vm_area_find(proc, src)
        e_find   == Ev("vm_area_find", src, 0, {}, 0, opt_vma.has)
        vma_span == vm_area_span(proc, opt_vma.vma)
        e_span   == Ev("vm_area_span", opt_vma.vma.addr, 0, {}, 0, vma_span.has)
        no(ev)   == [ok |-> FALSE, ev |-> ev]
    IN  IF is_kernel_address(src) THEN no(<<>>)
        ELSE IF proc.null THEN no(<<>>)
        ELSE IF irql_ge_dispatch(irql) THEN no(<<e_cr8>>)
        ELSE IF ~proc.null /\ r3 # proc.kdtb /\ r3 # proc.udtb THEN no(<<e_cr8, e_cr3>>)
        ELSE IF proc.null /\ r3 # dtb THEN no(<<e_cr8, e_cr3>>)
        ELSE IF ~opt_vma.has THEN no(<<e_cr8, e_cr3, e_find>>)
        ELSE IF ~vma_span.has \/ Gt(Add(src, PageSizeWord), Add(vma_span.addr, vma_span.size))
             THEN no(<<e_cr8, e_cr3, e_find, e_span>>)
        ELSE [ok |-> TRUE, ev |-> <<e_cr8, e_cr3, e_find, e_span>>]

\* mutant: the counter is incremented only when the injection succeeded
inject_page_fault_counts_success(npf, sel, src, injected) ==
    LET code  == IF is_user_mode(sel) THEN 4 ELSE 0
        e_cs  == Ev("read_cs", {}, 0, {}, 0, TRUE)
        e_inj == Ev("inject_interrupt", src, PAGE_FAULT, {}, code, injected)
        e_run == Ev("run_to_current", {}, 0, {}, 0, TRUE)
    IN  IF ~injected
        THEN [ok |-> FALSE, npf |-> npf, ev |-> <<e_cs, e_inj>>]
        ELSE [ok |-> TRUE, npf |-> npf + 1, ev |-> <<e_cs, e_inj, e_run>>]

\* mutant: what inject_interrupt returned is ignored
inject_page_fault_ignoring_result(npf, sel, src, injected) ==
    LET code  == IF is_user_mode(sel) THEN 4 ELSE 0
        e_cs  == Ev("read_cs", {}, 0, {}, 0, TRUE)
        e_inj == Ev("inject_interrupt", src, PAGE_FAULT, {}, code, injected)
        e_run == Ev("run_to_current", {}, 0, {}, 0, TRUE)
    IN  [ok |-> TRUE, npf |-> npf + 1, ev |-> <<e_cs, e_inj, e_run>>]

\* mutant: the faulting address is rounded down to its page
inject_page_fault_aligned_cr2(npf, sel, src, injected) ==
    LET code  == IF is_user_mode(sel) THEN 4 ELSE 0
        e_cs  == Ev("read_cs", {}, 0, {}, 0, TRUE)
        e_inj == Ev("inject_interrupt", BitAnd(src, BitNot(mask(12))), PAGE_FAULT, {}, code, injected)
        e_run == Ev("run_to_current", {}, 0, {}, 0, TRUE)
    IN  IF ~injected
        THEN [ok |-> FALSE, npf |-> npf + 1, ev |-> <<e_cs, e_inj>>]
        ELSE [ok |-> TRUE, npf |-> npf + 1, ev |-> <<e_cs, e_inj, e_run>>]

\* try_inject_page_fault, the injection; injected is what state::inject_interrupt returns
inject_page_fault(npf, sel, src, injected) ==
    LET is_user == is_user_mode(sel)
        code    == IF is_user THEN 4 ELSE 0
        e_cs    == Ev("read_cs", {}, 0, {}, 0, TRUE)
        e_inj   == Ev("inject_interrupt", src, PAGE_FAULT, {}, code, injected)
        e_run   == Ev("run_to_current", {}, 0, {}, 0, TRUE)
    IN  IF ~injected
        THEN [ok |-> FALSE, npf |-> npf + 1, ev |-> <<e_cs, e_inj>>]
        ELSE [ok |-> TRUE, npf |-> npf + 1, ev |-> <<e_cs, e_inj, e_run>>]

\* try_inject_page_fault: [ok, npf (the counter afterwards), ev (the external calls made)]
try_inject_page_fault(npf, r3, r8, sel, proc, dtb, src, injected) ==
    LET may == may_inject_page_fault(r3, r8, proc, dtb, src)
        inj == inject_page_fault(npf, sel, src, injected)
    IN  IF ~may.ok THEN [ok |-> FALSE, npf |-> npf, ev |-> may.ev]
        ELSE [ok |-> inj.ok, npf |-> inj.npf, ev |-> may.ev \o inj.ev]

(***************************************************************************)
(* The guest: address spaces, page tables, processes                       *)
(***************************************************************************)
MaxFaults == 2              \* accessor calls are explored while num_page_faults_ < MaxFaults

Kdtb == {12}                    \* 0x1000
Udtb == {14, 13, 11, 0}         \* 0x6801
OtherDtb == {63, 15, 3, 0}      \* 0x8000000000008009: PML4 page at 0x8000

VmaA == [id |-> 1, addr |-> {16}, size |-> {16}, span |-> TRUE]        \* [0x10000, 0x20000)
VmaB == [id |-> 2, addr |-> {17, 16}, size |-> {12}, span |-> FALSE]   \* [0x30000, 0x31000), extent unreadable

NoProc == [null |-> TRUE, kdtb |-> {}, udtb |-> {}, vmas |-> {}]
Proc1 == [null |-> FALSE, kdtb |-> Kdtb, udtb |-> Udtb, vmas |-> {VmaA, VmaB}]
Procs == {NoProc, Proc1}
Dtbs == {Kdtb, OtherDtb}

KernelPtr == (47..63) \cup {12}             \* 0xFFFF800000001000
Ptrs == { {},                               \* 0x0
          {16, 11},                         \* 0x10800
          {16, 13, 9, 8, 6, 2, 0},          \* 0x12345
          {16, 15, 14, 13, 12, 11},         \* 0x1F800
          {17, 16, 11},                     \* 0x30800
          KernelPtr }

\* a Valid entry naming frame pfn (flags 0x67), and entries that are not Valid
V(pfn) == BitOr(Shl(U(pfn), 12), {0, 1, 2, 5, 6})
VNx(pfn) == BitOr(V(pfn), {63, 52})         \* NoExecute and a software bit set
Inv == {}
InvSoft == {13, 12, 10, 7}                  \* a software PTE (Valid clear, other bits set)
Large1G == {63, 52, 51, 46, 30, 12, 7, 1, 0}    \* 0x8018400040001083
Large2M == {46, 7, 6, 5, 2, 1, 0}           \* 0x4000000000E7
Large2Mb == {63, 52, 51, 45, 21, 13, 7, 0}    \* 0x8018200000202081

PtIndexes == {0, 1, 16, 18, 31, 48}

\* the page-table entries the transport can read: PML4 0x1000 and 0x8000 (its entry 0 not
\* Valid, its entry 0x100 as e1), PDPT 0x2000, PD 0x3000, PT 0x4000 (entry i names frame 5 + 16 i)
Tables(e1, e2, e3, e4) ==
    [a \in { {12}, {15, 11}, {15}, {13}, {13, 12} } \cup { BitOr({14}, Shl(U(i), 3)) : i \in PtIndexes } |->
        IF a \in { {12}, {15, 11} } THEN e1
        ELSE IF a = {15} THEN InvSoft
        ELSE IF a = {13} THEN e2
        ELSE IF a = {13, 12} THEN e3
        ELSE IF Valid(e4) THEN BitOr(e4, BitAnd(Shl(a, 13), 16..21)) ELSE e4]

Resolved == Tables(V(2), V(3), V(4), VNx(5))
FaultPT == Tables(V(2), V(3), V(4), InvSoft)
ErrorPT == Tables(V(2), V(3), V(7), Inv)
MemConfigs ==
    { Resolved,
      FaultPT,
      Tables(V(2), V(3), InvSoft, Inv),
      Tables(V(2), Inv, Inv, Inv),
      Tables(Inv, Inv, Inv, Inv),
      Tables(V(2), Large1G, Inv, Inv),
      Tables(V(2), V(3), Large2M, Inv),
      Tables(V(2), V(3), Large2Mb, Inv),
      Tables(V(7), Inv, Inv, Inv),
      Tables(V(2), V(7), Inv, Inv),
      ErrorPT }

\* the paused VCPU: CR3, CR8 (IRQL) and CS
Contexts ==
    { [cr3 |-> Udtb, cr8 |-> U(0), cs |-> U(51)],       \* user mode (CS 0x33), passive
      [cr3 |-> Kdtb, cr8 |-> U(1), cs |-> U(16)],       \* kernel mode (CS 0x10), apc
      [cr3 |-> Udtb, cr8 |-> U(2), cs |-> U(51)],       \* dispatch
      [cr3 |-> OtherDtb, cr8 |-> U(0), cs |-> U(51)] }  \* another process is running
AtDispatch == [cr3 |-> Udtb, cr8 |-> U(2), cs |-> U(51)]

\* state::run_to_current: the guest's #PF handler runs; the page tables it leaves
run_to_current(m) == {m, Resolved, ErrorPT}

(***************************************************************************)
(* core.cpp: core::make_core and Core::setup                               *)
(***************************************************************************)
MaxHelpers == 3             \* os::g_helpers holds at most MaxHelpers helpers

\* what the calls made by Core::setup return: a handle or module (TRUE) or null (FALSE);
\* helpers[i] is what the make of the i-th helper of os::g_helpers returns
Envs ==
    [open : BOOLEAN, init : BOOLEAN, memory : BOOLEAN, state : BOOLEAN,
     helpers : UNION {[1..n -> BOOLEAN] : n \in 0..MaxHelpers}]

\* a Core after construction: no member is set (os_ = 0: no helper)
NewCore(env) ==
    [made |-> TRUE, env |-> env, shm_ |-> FALSE, mem_ |-> FALSE, state_ |-> FALSE, os_ |-> 0,
     ok |-> FALSE, handler |-> FALSE, log |-> "", ev |-> <<>>]
NoCore == [NewCore([open |-> FALSE, init |-> FALSE, memory |-> FALSE, state |-> FALSE, helpers |-> <<>>])
             EXCEPT !.made = FALSE]

\* FAIL(VALUE, FMT) used as a statement: log FMT and return VALUE from the function
FAIL(VALUE, FMT, c) == [c EXCEPT !.ok = VALUE, !.log = FMT]

\* mutant: the loop over os::g_helpers has no break
register_os_helpers_no_break(c, i) ==
    LET n    == Len(c.env.helpers)
        made == {k \in 1..n : c.env.helpers[k]}
    IN  [c EXCEPT !.os_ = IF n \in made THEN n ELSE 0,
                  !.ev  = c.ev \o [k \in 1..n |-> <<"make", k>>]]

\* the loop over os::g_helpers, from its i-th helper on
RECURSIVE register_os_helpers(_, _)
register_os_helpers(c, i) ==
    IF i > Len(c.env.helpers) THEN c
    ELSE LET c2 == [c EXCEPT !.os_ = IF c.env.helpers[i] THEN i ELSE 0,
                             !.ev  = Append(c.ev, <<"make", i>>)]
         IN  IF c2.os_ # 0 THEN c2 ELSE register_os_helpers(c2, i + 1)

\* mutant: a missing state module is not checked
Core_setup_unchecked_state(c0) ==
    LET c1 == [c0 EXCEPT !.ev = Append(c0.ev, <<"FDP_OpenSHM", 0>>)]
        c2 == [c1 EXCEPT !.shm_ = TRUE, !.ev = Append(c1.ev, <<"FDP_Init", 0>>)]
        c3 == [c2 EXCEPT !.ev = Append(c2.ev, <<"core::setup", 0>>)]
        c4 == [c3 EXCEPT !.mem_ = c0.env.memory, !.ev = Append(c3.ev, <<"make_memory", 0>>)]
        c5 == [c4 EXCEPT !.state_ = c0.env.state, !.ev = Append(c4.ev, <<"make_state", 0>>)]
        c6 == register_os_helpers(c5, 1)
    IN  IF ~c0.env.open THEN FAIL(FALSE, "unable to open shm", c1)
        ELSE IF ~c0.env.init THEN FAIL(FALSE, "unable to init shm", c2)
        ELSE IF ~c4.mem_ THEN FAIL(FALSE, "unable to init memory module", c4)
        ELSE IF c6.os_ = 0 THEN [c6 EXCEPT !.ok = FALSE]
        ELSE [c6 EXCEPT !.ok = TRUE]

\* Core::setup on a new Core
Core_setup(c0) ==
    LET c1 == [c0 EXCEPT !.ev = Append(c0.ev, <<"FDP_OpenSHM", 0>>)]
        c2 == [c1 EXCEPT !.shm_ = TRUE, !.ev = Append(c1.ev, <<"FDP_Init", 0>>)]
        c3 == [c2 EXCEPT !.ev = Append(c2.ev, <<"core::setup", 0>>)]
        c4 == [c3 EXCEPT !.mem_ = c0.env.memory, !.ev = Append(c3.ev, <<"make_memory", 0>>)]
        c5 == [c4 EXCEPT !.state_ = c0.env.state, !.ev = Append(c4.ev, <<"make_state", 0>>)]
        c6 == register_os_helpers(c5, 1)
    IN  IF ~c0.env.open THEN FAIL(FALSE, "unable to open shm", c1)
        ELSE IF ~c0.env.init THEN FAIL(FALSE, "unable to init shm", c2)
        ELSE IF ~c4.mem_ THEN FAIL(FALSE, "unable to init memory module", c4)
        ELSE IF ~c5.state_ THEN FAIL(FALSE, "unable to init state module", c5)
        ELSE IF c6.os_ = 0 THEN [c6 EXCEPT !.ok = FALSE]
        ELSE [c6 EXCEPT !.ok = TRUE]

\* core::make_core: the handler is the Core when setup succeeded, null otherwise
make_core ==
    /\ \E env \in Envs :
            LET c == Core_setup(NewCore(env))
            IN  core' = [c EXCEPT !.handler = c.ok]
    /\ UNCHANGED <<mem, cr3, cr8, cs, num_page_faults_, injected_total, call>>

(***************************************************************************)
(* The accessors of nt::Os                                                 *)
(***************************************************************************)
Count(ev, c) == Cardinality({i \in 1..Len(ev) : ev[i].call = c})

Return(op, ptr, proc, dtb, ok, phy, ev, npf, m2) ==
    /\ call' = [op |-> op, ptr |-> ptr, proc |-> proc, dtb |-> dtb, ok |-> ok, phy |-> phy,
                ev |-> ev, mem0 |-> mem, npf0 |-> num_page_faults_]
    /\ mem' = m2
    /\ num_page_faults_' = npf
    /\ injected_total' = injected_total + Count(ev, "inject_interrupt")
    /\ UNCHANGED <<cr3, cr8, cs, core>>

Start(mems, ctxs) ==
    /\ mem \in mems
    /\ \E c \in ctxs : cr3 = c.cr3 /\ cr8 = c.cr8 /\ cs = c.cs
    /\ num_page_faults_ = 0
    /\ injected_total = 0
    /\ call = [op |-> "none", ptr |-> {}, proc |-> NoProc, dtb |-> {}, ok |-> FALSE, phy |-> {},
               ev |-> <<>>, mem0 |-> mem, npf0 |-> 0]
    /\ core = NoCore

\* the accessors on a guest whose pages are mapped or paged out, in every context
Init == Start({Resolved, FaultPT}, Contexts)

\* the walker on every shape of page table (no fault can be injected at dispatch level)
InitWalker == Start(MemConfigs, {AtDispatch})

\* mutant: the result of try_inject_page_fault is ignored
Os_read_page_ignoring_refusal ==
    /\ num_page_faults_ < MaxFaults
    /\ \E ptr \in Ptrs, proc \in Procs, dtb \in Dtbs :
        LET nt_phy == virtual_to_physical(mem, ptr, proc, dtb)
            ret(ok, ev, npf, m2) == Return("read_page", ptr, proc, dtb, ok, {}, ev, npf, m2)
        IN  IF ~nt_phy.has THEN ret(FALSE, nt_phy.ev, num_page_faults_, mem)
            ELSE IF nt_phy.val.valid_page
                 THEN \E ok \in BOOLEAN :
                        ret(ok, nt_phy.ev \o <<Ev("read_physical", nt_phy.val.ptr, PAGE_SIZE, {}, 0, ok)>>,
                            num_page_faults_, mem)
            ELSE \E injected \in BOOLEAN :
                    LET r == try_inject_page_fault(num_page_faults_, cr3, cr8, cs, proc, dtb, ptr, injected)
                    IN  \E m2 \in (IF r.ok THEN run_to_current(mem) ELSE {mem}), ok \in BOOLEAN :
                                ret(ok, nt_phy.ev \o r.ev \o <<Ev("read_virtual_with_dtb", ptr, PAGE_SIZE, dtb, 0, ok)>>,
                                    r.npf, m2)

\* mutant: after the injection the page tables are walked again before the virtualised read
Os_read_page_rewalk ==
    /\ num_page_faults_ < MaxFaults
    /\ \E ptr \in Ptrs, proc \in Procs, dtb \in Dtbs :
        LET nt_phy == virtual_to_physical(mem, ptr, proc, dtb)
            ret(ok, ev, npf, m2) == Return("read_page", ptr, proc, dtb, ok, {}, ev, npf, m2)
        IN  IF ~nt_phy.has THEN ret(FALSE, nt_phy.ev, num_page_faults_, mem)
            ELSE IF nt_phy.val.valid_page
                 THEN \E ok \in BOOLEAN :
                        ret(ok, nt_phy.ev \o <<Ev("read_physical", nt_phy.val.ptr, PAGE_SIZE, {}, 0, ok)>>,
                            num_page_faults_, mem)
            ELSE \E injected \in BOOLEAN :
                    LET r == try_inject_page_fault(num_page_faults_, cr3, cr8, cs, proc, dtb, ptr, injected)
                    IN  IF ~r.ok THEN ret(FALSE, nt_phy.ev \o r.ev, r.npf, mem)
                        ELSE \E m2 \in run_to_current(mem), ok \in BOOLEAN :
                                ret(ok, nt_phy.ev \o r.ev \o virtual_to_physical(m2, ptr, proc, dtb).ev
                                        \o <<Ev("read_virtual_with_dtb", ptr, PAGE_SIZE, dtb, 0, ok)>>,
                                    r.npf, m2)

Os_read_page ==
    /\ num_page_faults_ < MaxFaults
    /\ \E ptr \in Ptrs, proc \in Procs, dtb \in Dtbs :
        LET nt_phy == virtual_to_physical(mem, ptr, proc, dtb)
            ret(ok, ev, npf, m2) == Return("read_page", ptr, proc, dtb, ok, {}, ev, npf, m2)
        IN  IF ~nt_phy.has THEN ret(FALSE, nt_phy.ev, num_page_faults_, mem)
            ELSE IF nt_phy.val.zero_page
                 THEN ret(TRUE, nt_phy.ev \o <<Ev("memset", {}, PAGE_SIZE, {}, 0, TRUE)>>, num_page_faults_, mem)
            ELSE IF nt_phy.val.valid_page
                 THEN \E ok \in BOOLEAN :
                        ret(ok, nt_phy.ev \o <<Ev("read_physical", nt_phy.val.ptr, PAGE_SIZE, {}, 0, ok)>>,
                            num_page_faults_, mem)
            ELSE \E injected \in BOOLEAN :
                    LET r == try_inject_page_fault(num_page_faults_, cr3, cr8, cs, proc, dtb, ptr, injected)
                    IN  IF ~r.ok THEN ret(FALSE, nt_phy.ev \o r.ev, r.npf, mem)
                        ELSE \E m2 \in run_to_current(mem), ok \in BOOLEAN :
                                ret(ok, nt_phy.ev \o r.ev \o <<Ev("read_virtual_with_dtb", ptr, PAGE_SIZE, dtb, 0, ok)>>,
                                    r.npf, m2)

\* mutant: a walk that failed at the transport goes on to the injection
Os_write_page_fault_on_error ==
    /\ num_page_faults_ < MaxFaults
    /\ \E ptr \in Ptrs, proc \in Procs, dtb \in Dtbs :
        LET nt_phy == virtual_to_physical(mem, ptr, proc, dtb)
            ret(ok, ev, npf, m2) == Return("write_page", ptr, proc, dtb, ok, {}, ev, npf, m2)
        IN  IF nt_phy.has /\ nt_phy.val.valid_page
            THEN \E ok \in BOOLEAN :
                    ret(ok, nt_phy.ev \o <<Ev("write_physical", nt_phy.val.ptr, PAGE_SIZE, {}, 0, ok)>>,
                        num_page_faults_, mem)
            ELSE \E injected \in BOOLEAN :
                    LET r == try_inject_page_fault(num_page_faults_, cr3, cr8, cs, proc, dtb, ptr, injected)
                    IN  IF ~r.ok THEN ret(FALSE, nt_phy.ev \o r.ev, r.npf, mem)
                        ELSE \E m2 \in run_to_current(mem), ok \in BOOLEAN :
                                ret(ok, nt_phy.ev \o r.ev \o <<Ev("write_virtual_with_dtb", ptr, PAGE_SIZE, dtb, 0, ok)>>,
                                    r.npf, m2)

Os_write_page ==
    /\ num_page_faults_ < MaxFaults
    /\ \E ptr \in Ptrs, proc \in Procs, dtb \in Dtbs :
        LET nt_phy == virtual_to_physical(mem, ptr, proc, dtb)
            ret(ok, ev, npf, m2) == Return("write_page", ptr, proc, dtb, ok, {}, ev, npf, m2)
        IN  IF ~nt_phy.has THEN ret(FALSE, nt_phy.ev, num_page_faults_, mem)
            ELSE IF nt_phy.val.valid_page
                 THEN \E ok \in BOOLEAN :
                        ret(ok, nt_phy.ev \o <<Ev("write_physical", nt_phy.val.ptr, PAGE_SIZE, {}, 0, ok)>>,
                            num_page_faults_, mem)
            ELSE \E injected \in BOOLEAN :
                    LET r == try_inject_page_fault(num_page_faults_, cr3, cr8, cs, proc, dtb, ptr, injected)
                    IN  IF ~r.ok THEN ret(FALSE, nt_phy.ev \o r.ev, r.npf, mem)
                        ELSE \E m2 \in run_to_current(mem), ok \in BOOLEAN :
                                ret(ok, nt_phy.ev \o r.ev \o <<Ev("write_virtual_with_dtb", ptr, PAGE_SIZE, dtb, 0, ok)>>,
                                    r.npf, m2)

\* mutant: a walk that failed at the transport is treated like a fault-required one
Os_virtual_to_physical_fault_on_error ==
    /\ num_page_faults_ < MaxFaults
    /\ \E ptr \in Ptrs, proc \in Procs, dtb \in Dtbs :
        LET nt_phy == virtual_to_physical(mem, ptr, proc, dtb)
            ret(ok, phy, ev, npf, m2) == Return("virtual_to_physical", ptr, proc, dtb, ok, phy, ev, npf, m2)
        IN  IF nt_phy.has /\ nt_phy.val.valid_page
            THEN ret(TRUE, nt_phy.val.ptr, nt_phy.ev, num_page_faults_, mem)
            ELSE \E injected \in BOOLEAN :
                    LET r == try_inject_page_fault(num_page_faults_, cr3, cr8, cs, proc, dtb, ptr, injected)
                    IN  IF ~r.ok THEN ret(FALSE, {}, nt_phy.ev \o r.ev, r.npf, mem)
                        ELSE \E m2 \in run_to_current(mem) :
                                LET nt_phy2 == virtual_to_physical(m2, ptr, proc, dtb)
                                IN  IF ~nt_phy2.has \/ ~nt_phy2.val.valid_page
                                    THEN ret(FALSE, {}, nt_phy.ev \o r.ev \o nt_phy2.ev, r.npf, m2)
                                    ELSE ret(TRUE, nt_phy2.val.ptr, nt_phy.ev \o r.ev \o nt_phy2.ev, r.npf, m2)

\* mutant: the retry reuses the page-table entries read by the first walk
Os_virtual_to_physical_stale_retry ==
    /\ num_page_faults_ < MaxFaults
    /\ \E ptr \in Ptrs, proc \in Procs, dtb \in Dtbs :
        LET nt_phy == virtual_to_physical(mem, ptr, proc, dtb)
            ret(ok, phy, ev, npf, m2) == Return("virtual_to_physical", ptr, proc, dtb, ok, phy, ev, npf, m2)
        IN  IF ~nt_phy.has THEN ret(FALSE, {}, nt_phy.ev, num_page_faults_, mem)
            ELSE IF nt_phy.val.valid_page
                 THEN ret(TRUE, nt_phy.val.ptr, nt_phy.ev, num_page_faults_, mem)
            ELSE \E injected \in BOOLEAN :
                    LET r == try_inject_page_fault(num_page_faults_, cr3, cr8, cs, proc, dtb, ptr, injected)
                    IN  IF ~r.ok THEN ret(FALSE, {}, nt_phy.ev \o r.ev, r.npf, mem)
                        ELSE \E m2 \in run_to_current(mem) :
                                LET nt_phy2 == virtual_to_physical(mem, ptr, proc, dtb)
                                IN  IF ~nt_phy2.has \/ ~nt_phy2.val.valid_page
                                    THEN ret(FALSE, {}, nt_phy.ev \o r.ev \o nt_phy2.ev, r.npf, m2)
                                    ELSE ret(TRUE, nt_phy2.val.ptr, nt_phy.ev \o r.ev \o nt_phy2.ev, r.npf, m2)

\* mutant: a second walk that is not resolved is followed by a second injection
Os_virtual_to_physical_reinject ==
    /\ num_page_faults_ < MaxFaults
    /\ \E ptr \in Ptrs, proc \in Procs, dtb \in Dtbs :
        LET nt_phy == virtual_to_physical(mem, ptr, proc, dtb)
            ret(ok, phy, ev, npf, m2) == Return("virtual_to_physical", ptr, proc, dtb, ok, phy, ev, npf, m2)
        IN  IF ~nt_phy.has THEN ret(FALSE, {}, nt_phy.ev, num_page_faults_, mem)
            ELSE IF nt_phy.val.valid_page
                 THEN ret(TRUE, nt_phy.val.ptr, nt_phy.ev, num_page_faults_, mem)
            ELSE \E injected \in BOOLEAN :
                    LET r == try_inject_page_fault(num_page_faults_, cr3, cr8, cs, proc, dtb, ptr, injected)
                    IN  IF ~r.ok THEN ret(FALSE, {}, nt_phy.ev \o r.ev, r.npf, mem)
                        ELSE \E m2 \in run_to_current(mem) :
                                LET nt_phy2 == virtual_to_physical(m2, ptr, proc, dtb)
                                    r2      == try_inject_page_fault(r.npf, cr3, cr8, cs, proc, dtb, ptr, injected)
                                IN  IF ~nt_phy2.has \/ ~nt_phy2.val.valid_page
                                    THEN ret(FALSE, {}, nt_phy.ev \o r.ev \o nt_phy2.ev \o r2.ev, r2.npf, m2)
                                    ELSE ret(TRUE, nt_phy2.val.ptr, nt_phy.ev \o r.ev \o nt_phy2.ev, r.npf, m2)

Os_virtual_to_physical ==
    /\ num_page_faults_ < MaxFaults
    /\ \E ptr \in Ptrs, proc \in Procs, dtb \in Dtbs :
        LET nt_phy == virtual_to_physical(mem, ptr, proc, dtb)
            ret(ok, phy, ev, npf, m2) == Return("virtual_to_physical", ptr, proc, dtb, ok, phy, ev, npf, m2)
        IN  IF ~nt_phy.has THEN ret(FALSE, {}, nt_phy.ev, num_page_faults_, mem)
            ELSE IF nt_phy.val.valid_page
                 THEN ret(TRUE, nt_phy.val.ptr, nt_phy.ev, num_page_faults_, mem)
            ELSE \E injected \in BOOLEAN :
                    LET r == try_inject_page_fault(num_page_faults_, cr3, cr8, cs, proc, dtb, ptr, injected)
                    IN  IF ~r.ok THEN ret(FALSE, {}, nt_phy.ev \o r.ev, r.npf, mem)
                        ELSE \E m2 \in run_to_current(mem) :
                                LET nt_phy2 == virtual_to_physical(m2, ptr, proc, dtb)
                                IN  IF ~nt_phy2.has \/ ~nt_phy2.val.valid_page
                                    THEN ret(FALSE, {}, nt_phy.ev \o r.ev \o nt_phy2.ev, r.npf, m2)
                                    ELSE ret(TRUE, nt_phy2.val.ptr, nt_phy.ev \o r.ev \o nt_phy2.ev, r.npf, m2)

Next == Os_read_page \/ Os_write_page \/ Os_virtual_to_physical

Spec == Init /\ [][Next]_vars

NextWalker == Os_read_page \/ Os_virtual_to_physical

SpecWalker == InitWalker /\ [][NextWalker]_vars

\* the construction of the Core, before any accessor call
InitCore == Start({Resolved}, {AtDispatch})

NextCore == make_core

SpecCore == InitCore /\ [][NextCore]_vars

(***************************************************************************)
(* Properties                                                              *)
(***************************************************************************)
\* the value of a word below 2^31
RECURSIVE ToNat(_)
ToNat(w) == IF w = {} THEN 0 ELSE LET b == CHOOSE x \in w : TRUE IN 2^b + ToNat(w \ {b})

\* the positions in call.ev of the external calls named c
Calls(c) == {i \in 1..Len(call.ev) : call.ev[i].call = c}
Injections == Calls("inject_interrupt")

\* the six predicates of the injection policy, on the arguments of the last call
PolicyHolds ==
    /\ call.ptr \cap (52..63) = {}
    /\ ~call.proc.null
    /\ ToNat(cr8) < 2
    /\ cr3 \in {call.proc.kdtb, call.proc.udtb}
    /\ \E v \in call.proc.vmas :
          /\ ToNat(v.addr) <= ToNat(call.ptr)
          /\ ToNat(call.ptr) < ToNat(v.addr) + ToNat(v.size)
          /\ v.span
          /\ ToNat(call.ptr) + 4096 <= ToNat(v.addr) + ToNat(v.size)

\* C1: an accessor call invokes inject_interrupt only if the address is not a kernel
\* address, a process was supplied, IRQL < dispatch, CR3 is the process's kdtb or udtb,
\* the address lies in a VMA whose span is known and the whole page lies inside it; a
\* call without a process never injects.
C1_InjectOnlyIfPolicyHolds ==
    /\ Injections # {} => PolicyHolds
    /\ call.proc.null => Injections = {}

C1_Witness ==
    /\ call.op = "read_page"
    /\ Injections # {}
    /\ PolicyHolds

\* C2: num_page_faults_ equals the number of inject_interrupt calls made so far; every
\* call raises it by exactly the number of its inject_interrupt calls, so it never decreases.
C2_CounterCountsInjections ==
    /\ num_page_faults_ = injected_total
    /\ num_page_faults_ = call.npf0 + Cardinality(Injections)
    /\ Cardinality(Injections) <= 1

C2_Witness ==
    /\ num_page_faults_ = 2
    /\ \E i \in Injections : ~call.ev[i].ok

(***************************************************************************)
(* The translation of section 4.C, written from the page-table format: the *)
(* entries at (dtb & bits 12..51) + 8 pml4, then PFN * 4096 + 8 index; a   *)
(* Valid LargePage entry of the PDPT or the PD maps (raw & big1g) or       *)
(* (raw & big2m) plus the offset below bit 30 or bit 21.                   *)
(***************************************************************************)
RefWalk(m, dtb, ptr, big1g, big2m) ==
    LET index(lo) == BitAnd(Shr(ptr, lo), 0..8)
        next(e, lo) == Add(Shl(PageFrameNumber(e), 12), Shl(index(lo), 3))
        a1 == Add(BitAnd(dtb, 12..51), Shl(index(39), 3))
        a2 == next(m[a1], 30)
        a3 == next(m[a2], 21)
        a4 == next(m[a3], 12)
        R(k, phy, reads) == [kind |-> k, phy |-> phy, reads |-> reads]
    IN  IF a1 \notin DOMAIN m THEN R("error", {}, <<a1>>)
        ELSE IF 0 \notin m[a1] THEN R("fault", {}, <<a1>>)
        ELSE IF a2 \notin DOMAIN m THEN R("error", {}, <<a1, a2>>)
        ELSE IF 0 \notin m[a2] THEN R("fault", {}, <<a1, a2>>)
        ELSE IF 7 \in m[a2] THEN R("large1g", (m[a2] \cap big1g) \cup (ptr \cap (0..29)), <<a1, a2>>)
        ELSE IF a3 \notin DOMAIN m THEN R("error", {}, <<a1, a2, a3>>)
        ELSE IF 0 \notin m[a3] THEN R("fault", {}, <<a1, a2, a3>>)
        ELSE IF 7 \in m[a3] THEN R("large2m", (m[a3] \cap big2m) \cup (ptr \cap (0..20)), <<a1, a2, a3>>)
        ELSE IF a4 \notin DOMAIN m THEN R("error", {}, <<a1, a2, a3, a4>>)
        ELSE IF 0 \notin m[a4] THEN R("fault", {}, <<a1, a2, a3, a4>>)
        ELSE R("page", Shl(PageFrameNumber(m[a4]), 12) \cup (ptr \cap (0..11)), <<a1, a2, a3, a4>>)

\* the translation of the last call's address on the page tables before (Ref0) and after it (Ref1)
Ref0 == RefWalk(call.mem0, call.dtb, call.ptr, 30..51, 21..51)
Ref1 == RefWalk(mem, call.dtb, call.ptr, 30..51, 21..51)

Called == call.op # "none"
IsWalkRead(e) == e.call = "read_physical" /\ e.size = 8
IsTransfer(e) == e.call \in {"read_physical", "write_physical", "read_virtual_with_dtb", "write_virtual_with_dtb"} /\ e.size = 4096
\* the number of page-table reads that open the call: its first walk
WalkLen == Cardinality({n \in 1..Len(call.ev) : \A j \in 1..n : IsWalkRead(call.ev[j])})
Addrs(ev) == [i \in 1..Len(ev) |-> ev[i].addr]
GuestUntouched ==
    /\ Injections = {}
    /\ Calls("run_to_current") = {}
    /\ Calls("write_physical") = {} /\ Calls("write_virtual_with_dtb") = {}
    /\ num_page_faults_ = call.npf0
    /\ mem = call.mem0

\* C3 as stated: no call of the public virtual_to_physical injects an interrupt, resumes
\* the VCPU, writes guest memory or changes num_page_faults_.
C3_PublicTranslationNeverMutates ==
    call.op = "virtual_to_physical" => GuestUntouched

\* C3 (amended): a walk only reads page-table entries, and the public virtual_to_physical
\* leaves the guest untouched unless its first walk ends fault-required and the policy
\* accepts; it never writes guest memory. When the first walk ends fault-required and the
\* policy accepts, it does inject (and resumes the VCPU when the injection succeeded).
C3_TranslationMutatesOnlyByInjection ==
    call.op = "virtual_to_physical" =>
        /\ \A i \in 1..WalkLen : IsWalkRead(call.ev[i])
        /\ WalkLen = Len(Ref0.reads)
        /\ Calls("write_physical") = {} /\ Calls("write_virtual_with_dtb") = {}
        /\ (Ref0.kind # "fault" \/ ~PolicyHolds) => GuestUntouched
        /\ (Ref0.kind = "fault" /\ PolicyHolds) => Cardinality(Injections) = 1

C3_Witness ==
    /\ call.op = "virtual_to_physical"
    /\ Ref0.kind = "fault" /\ PolicyHolds
    /\ Calls("run_to_current") # {}
    /\ mem # call.mem0
    /\ num_page_faults_ = call.npf0 + 1

PolicyQueries == {"read_cr8", "read_cr3", "vm_area_find", "vm_area_span", "read_cs"}
InjectedOk == \E i \in Injections : call.ev[i].ok
Resolves(r) == r.kind \in {"page", "large1g", "large2m"}

\* C4: in a call whose first walk ends fault-required and whose injection succeeds, the
\* external calls are, in this order: the reads of the first walk, the policy's queries,
\* inject_interrupt, run_to_current, the retry. The retry of virtual_to_physical is a walk
\* of the page tables as run_to_current left them, and decides the result; the retry of
\* read_page / write_page is one virtualised transfer of the page.
C4_WalkInjectRunRetry ==
    InjectedOk =>
        LET i == CHOOSE x \in Injections : TRUE
            n == Len(call.ev)
        IN  /\ Ref0.kind = "fault"
            /\ Addrs(SubSeq(call.ev, 1, WalkLen)) = Ref0.reads
            /\ WalkLen < i
            /\ \A j \in (WalkLen + 1)..(i - 1) : call.ev[j].call \in PolicyQueries
            /\ n >= i + 1 /\ call.ev[i + 1].call = "run_to_current"
            /\ Calls("run_to_current") = {i + 1}
            /\ IF call.op = "virtual_to_physical"
               THEN /\ \A j \in (i + 2)..n : IsWalkRead(call.ev[j])
                    /\ Addrs(SubSeq(call.ev, i + 2, n)) = Ref1.reads
                    /\ call.ok = Resolves(Ref1)
                    /\ call.ok => call.phy = Ref1.phy
               ELSE /\ n = i + 2
                    /\ call.ev[n].call = (IF call.op = "read_page" THEN "read_virtual_with_dtb"
                                                                   ELSE "write_virtual_with_dtb")
                    /\ call.ev[n].addr = call.ptr /\ call.ev[n].dtb = call.dtb /\ call.ev[n].size = 4096
                    /\ call.ok = call.ev[n].ok

C4_Witness ==
    /\ call.op = "virtual_to_physical"
    /\ InjectedOk
    /\ Ref0.kind = "fault" /\ Ref1.kind = "page"
    /\ call.ok /\ call.phy = Ref1.phy

\* C5: a walk reads 8-byte entries in the order PML4E, PDPE, PDE, PTE, each at the
\* address derived from the frame number of the entry before; every entry before the last
\* one read was read successfully and is Valid; the walk reads nothing below an entry that
\* is not Valid (the call then goes on as fault-required, without another physical read)
\* and nothing below a Valid LargePage entry of the PDPT (2 reads) or the PD (3 reads).
C5_WalkReadsInOrderAndStops ==
    Called =>
        /\ WalkLen \in 1..4
        /\ Addrs(SubSeq(call.ev, 1, WalkLen)) = Ref0.reads
        /\ \A k \in 1..(WalkLen - 1) : call.ev[k].ok /\ 0 \in call.mem0[call.ev[k].addr]
        /\ (call.ev[WalkLen].ok /\ 0 \notin call.mem0[call.ev[WalkLen].addr]) =>
                /\ Ref0.kind = "fault"
                /\ ~call.ok
                /\ \A j \in (WalkLen + 1)..Len(call.ev) : call.ev[j].call \in PolicyQueries
        /\ Ref0.kind = "large1g" => WalkLen = 2
        /\ Ref0.kind = "large2m" => WalkLen = 3

C5_Witness ==
    /\ Called
    /\ WalkLen = 2
    /\ Ref0.kind = "fault"
    /\ call.ev[1].ok /\ call.ev[2].ok /\ 0 \notin call.mem0[call.ev[2].addr]

\* the four entries on the path of the last call's address are readable, Valid and not LargePage
PathOf4K ==
    /\ Ref0.kind = "page"
    /\ \A k \in 1..4 : 7 \notin call.mem0[Ref0.reads[k]]

\* C6: when the four entries on the path are Valid and none has LargePage, the entries are
\* read at (dtb & (mask(40) << 12)) + 8 pml4 and then at PFN * 4096 + 8 index, the
\* translation is pte.PFN * 4096 | (vaddr & 0xFFF), and read_page reads the page there.
C6_FourLevelTranslation ==
    (Called /\ PathOf4K) =>
        LET pte == call.mem0[Ref0.reads[4]]
            phy == Shl(PageFrameNumber(pte), 12) \cup (call.ptr \cap (0..11))
        IN  /\ WalkLen = 4
            /\ Addrs(SubSeq(call.ev, 1, 4)) = Ref0.reads
            /\ call.op = "virtual_to_physical" => call.ok /\ call.phy = phy /\ Len(call.ev) = 4
            /\ call.op = "read_page" =>
                    /\ Len(call.ev) = 5
                    /\ call.ev[5].call = "read_physical" /\ call.ev[5].size = 4096
                    /\ call.ev[5].addr = phy
                    /\ call.ok = call.ev[5].ok

\* scenario S1: DTB 0x1000, frames 2, 3, 4, 5, read_page of 0 reads the page at 0x5000
C6_Witness ==
    /\ call.op = "read_page" /\ call.dtb = {12} /\ call.ptr = {}
    /\ PathOf4K
    /\ Ref0.reads = << {12}, {13}, {13, 12}, {14} >>
    /\ \A k \in 1..4 : PageFrameNumber(call.mem0[Ref0.reads[k]]) = U(k + 1)
    /\ call.ev[5].addr = {14, 12}
    /\ call.ok

\* the last call resolved its address to phy: virtual_to_physical returned it, read_page
\* read the page there
ResolvedTo(phy) ==
    /\ call.op = "virtual_to_physical" => call.ok /\ call.phy = phy
    /\ call.op = "read_page" =>
            LET e == call.ev[Len(call.ev)]
            IN  e.call = "read_physical" /\ e.size = 4096 /\ e.addr = phy /\ call.ok = e.ok

\* C7 as stated: a walk that reaches a Valid LargePage entry of the PDPT resolves to
\* (pdpe.raw & 0x3FFFC0000000) | (vaddr & 0x3FFFFFFF), whatever bits 46..51 of the entry are.
C7_OneGigPageBits30To45 ==
    (Called /\ Ref0.kind = "large1g") =>
        ResolvedTo((call.mem0[Ref0.reads[2]] \cap (30..45)) \cup (call.ptr \cap (0..29)))

\* C7 (amended): a walk that reaches a Valid LargePage entry of the PDPT resolves to
\* (pdpe.raw & 0xFFFFFC0000000) | (vaddr & 0x3FFFFFFF): the mask is mask(22) << 30,
\* bits 30..51, so bits 46..51 of the entry are part of the address.
C7_OneGigPageBits30To51 ==
    (Called /\ Ref0.kind = "large1g") =>
        ResolvedTo((call.mem0[Ref0.reads[2]] \cap (30..51)) \cup (call.ptr \cap (0..29)))

C7_Witness ==
    /\ call.op = "virtual_to_physical"
    /\ Ref0.kind = "large1g"
    /\ call.mem0[Ref0.reads[2]] \cap (46..51) # {}
    /\ call.ptr \cap (0..29) # {}
    /\ call.ok

\* C8 as stated: a walk that reaches a Valid LargePage entry of the PD resolves to
\* (pde.raw & 0x3FFFFFE00000) | (vaddr & 0x1FFFFF), whatever bits 46..51 of the entry are.
C8_TwoMegPageBits21To45 ==
    (Called /\ Ref0.kind = "large2m") =>
        ResolvedTo((call.mem0[Ref0.reads[3]] \cap (21..45)) \cup (call.ptr \cap (0..20)))

\* C8 (amended): a walk that reaches a Valid LargePage entry of the PD resolves to
\* (pde.raw & 0xFFFFFFFE00000) | (vaddr & 0x1FFFFF): the mask is mask(31) << 21,
\* bits 21..51, so bits 46..51 of the entry are part of the address.
C8_TwoMegPageBits21To51 ==
    (Called /\ Ref0.kind = "large2m") =>
        ResolvedTo((call.mem0[Ref0.reads[3]] \cap (21..51)) \cup (call.ptr \cap (0..20)))

C8_Witness ==
    /\ call.op = "virtual_to_physical"
    /\ Ref0.kind = "large2m"
    /\ 51 \in call.mem0[Ref0.reads[3]]
    /\ call.ptr \cap (0..20) # {}
    /\ call.ok

\* scenario S2: virtual_to_physical(0x12345) through Valid PML4 and PDPT entries and the
\* PD entry 0 of raw value 0x4000000000E7
ScenarioS2 ==
    /\ call.op = "virtual_to_physical"
    /\ call.ptr = {16, 13, 9, 8, 6, 2, 0}
    /\ Ref0.kind = "large2m"
    /\ Ref0.reads[3] = {13, 12}
    /\ call.mem0[Ref0.reads[3]] = {46, 7, 6, 5, 2, 1, 0}

\* C9 as stated: in scenario S2 virtual_to_physical returns 0x400012345.
C9_ScenarioS2Returns400012345 ==
    ScenarioS2 => call.ok /\ call.phy = {34, 16, 13, 9, 8, 6, 2, 0}

\* C9 (amended): in scenario S2 virtual_to_physical returns 0x400000012345: bit 46 of the
\* raw value 0x4000000000E7 is kept, and the offset 0x12345 is added.
C9_ScenarioS2Returns400000012345 ==
    ScenarioS2 => call.ok /\ call.phy = {46, 16, 13, 9, 8, 6, 2, 0}

C9_Witness ==
    ScenarioS2 /\ call.ok /\ call.phy = {46, 16, 13, 9, 8, 6, 2, 0}

\* C10: when the first walk ends fault-required and the policy refuses, the call fails,
\* nothing is injected, the VCPU is not resumed, num_page_faults_ is unchanged and no page
\* is transferred: after the walk only the policy's queries are made.
C10_RefusedInjectionFails ==
    (Called /\ Ref0.kind = "fault" /\ ~PolicyHolds) =>
        /\ ~call.ok
        /\ GuestUntouched
        /\ \A j \in 1..Len(call.ev) : ~IsTransfer(call.ev[j])
        /\ \A j \in (WalkLen + 1)..Len(call.ev) : call.ev[j].call \in PolicyQueries

\* scenario S4: read_page of the kernel address 0xFFFF800000001000 whose PTE is not Valid
C10_Witness ==
    /\ call.op = "read_page"
    /\ call.ptr = KernelPtr
    /\ Ref0.kind = "fault" /\ WalkLen = 4
    /\ ~PolicyHolds
    /\ ~call.ok /\ num_page_faults_ = call.npf0

InjectedFailed == \E i \in Injections : ~call.ev[i].ok

\* C11: when the policy accepts and inject_interrupt returns false, the call fails,
\* num_page_faults_ has gone up by exactly 1, run_to_current is not called and nothing is
\* retried: inject_interrupt is the last external call, no page is transferred and no
\* page-table entry is read after the first walk.
C11_FailedInjectionFails ==
    InjectedFailed =>
        /\ Ref0.kind = "fault" /\ PolicyHolds
        /\ ~call.ok
        /\ num_page_faults_ = call.npf0 + 1
        /\ Calls("run_to_current") = {}
        /\ Injections = {Len(call.ev)}
        /\ \A j \in 1..Len(call.ev) : ~IsTransfer(call.ev[j])
        /\ \A j \in (WalkLen + 1)..Len(call.ev) : ~IsWalkRead(call.ev[j])
        /\ mem = call.mem0

\* scenario S6: the policy accepts, the injection reports false, the counter is 1
C11_Witness ==
    /\ call.op = "write_page"
    /\ InjectedFailed
    /\ PolicyHolds
    /\ call.npf0 = 0 /\ num_page_faults_ = 1
    /\ ~call.ok

IsPageOp == call.op \in {"read_page", "write_page"}
LastEv == call.ev[Len(call.ev)]

\* C12: read_page and write_page return true iff their last external call is the page
\* transfer (physical on a resolved walk, virtualised after a successful injection) and
\* it returned true. A first walk that fails at the transport makes the call return false
\* after exactly the reads of that walk, the failed read being the last and made once:
\* nothing is injected, the counter is unchanged, no page is transferred. Only a
\* fault-required walk leads to an injection.
C12_SuccessIffFinalTransfer ==
    /\ (Called /\ IsPageOp) =>
            /\ call.ok <=> (IsTransfer(LastEv) /\ LastEv.ok)
            /\ IsTransfer(LastEv) <=> (Resolves(Ref0) \/ InjectedOk)
            /\ Resolves(Ref0) => LastEv.call \in {"read_physical", "write_physical"}
            /\ InjectedOk => LastEv.call \in {"read_virtual_with_dtb", "write_virtual_with_dtb"}
    /\ (Called /\ Ref0.kind = "error") =>
            /\ ~call.ok
            /\ Addrs(call.ev) = Ref0.reads
            /\ \A j \in 1..Len(call.ev) : IsWalkRead(call.ev[j]) /\ (call.ev[j].ok <=> j < Len(call.ev))
            /\ GuestUntouched
    /\ Injections # {} => Ref0.kind = "fault"

\* a walk fails at the transport on a call for which the policy would accept an injection
C12_Witness ==
    /\ call.op = "write_page"
    /\ Ref0.kind = "error" /\ Len(Ref0.reads) = 4
    /\ PolicyHolds
    /\ ~call.ok /\ Len(call.ev) = 4

\* CS selects user mode: its requested privilege level (bits 0 and 1) is not 0
UserCs == cs \cap {0, 1} # {}

\* C13: every inject_interrupt call has vector 14 (kept in the size field of the event),
\* the address the accessor was called with as CR2, and error code 4 when the CS read just
\* before it is user-mode, 0 otherwise, for write_page too; after a successful injection
\* read_page makes one virtualised read of 4096 bytes at the same address with the
\* caller's dtb and returns its result.
C13_Vector14ExactAddressUserBit ==
    /\ \A i \in Injections :
            /\ call.ev[i].size = 14
            /\ call.ev[i].addr = call.ptr
            /\ call.ev[i].code = (IF UserCs THEN 4 ELSE 0)
            /\ i > 1 /\ call.ev[i - 1].call = "read_cs"
    /\ (call.op = "read_page" /\ InjectedOk) =>
            /\ Calls("read_virtual_with_dtb") = {Len(call.ev)}
            /\ LastEv.addr = call.ptr /\ LastEv.size = 4096 /\ LastEv.dtb = call.dtb
            /\ call.ok = LastEv.ok

\* scenario S3: read_page of 0x10800 whose PTE is not Valid, CR3 = proc.udtb, IRQL passive,
\* CS user: vector 14, code 4, CR2 0x10800, counter 1, the virtualised read returns true
C13_Witness ==
    /\ call.op = "read_page" /\ call.ptr = {16, 11}
    /\ Ref0.kind = "fault" /\ Len(Ref0.reads) = 4
    /\ cr3 = call.proc.udtb /\ cr8 = {} /\ UserCs
    /\ \E i \in Injections :
            /\ call.ev[i].size = 14 /\ call.ev[i].code = 4 /\ call.ev[i].addr = {16, 11}
    /\ num_page_faults_ = 1
    /\ LastEv.call = "read_virtual_with_dtb" /\ call.ok

\* the external calls of the last call that follow its run_to_current
AfterRun ==
    LET r == CHOOSE x \in Calls("run_to_current") : TRUE
    IN  SubSeq(call.ev, r + 1, Len(call.ev))

\* C14: the public virtual_to_physical never calls read_virtual_with_dtb or
\* write_virtual_with_dtb; after a successful injection it walks the page tables exactly
\* once more and makes no other call, it returns the physical address of that second
\* walk iff the walk resolved, and nothing (without a second injection) when the walk is
\* still fault-required or fails at the transport.
C14_RetryIsOneWalkNoVirtualTransport ==
    call.op = "virtual_to_physical" =>
        /\ Calls("read_virtual_with_dtb") = {} /\ Calls("write_virtual_with_dtb") = {}
        /\ \A j \in 1..Len(call.ev) : ~IsTransfer(call.ev[j])
        /\ Cardinality(Injections) <= 1
        /\ InjectedOk =>
                /\ Cardinality(Calls("run_to_current")) = 1
                /\ Addrs(AfterRun) = Ref1.reads
                /\ \A j \in 1..Len(AfterRun) : IsWalkRead(AfterRun[j])
                /\ call.ok <=> Resolves(Ref1)
                /\ call.ok => call.phy = Ref1.phy
                /\ ~call.ok => call.phy = {}
                /\ num_page_faults_ = call.npf0 + 1

\* the page is still not present after the guest ran: the second walk is fault-required
C14_Witness ==
    /\ call.op = "virtual_to_physical"
    /\ InjectedOk
    /\ Ref1.kind = "fault"
    /\ Len(AfterRun) = Len(Ref1.reads)
    /\ ~call.ok

\* the second walk fails at the transport
C14_WitnessError ==
    /\ call.op = "virtual_to_physical"
    /\ InjectedOk
    /\ Ref1.kind = "error"
    /\ ~call.ok

\* a fault is injected in kernel mode: error code 0
C13_WitnessKernel ==
    \E i \in Injections : call.ev[i].code = 0 /\ ~UserCs /\ call.op = "write_page"

QueryOrder == <<"read_cr8", "read_cr3", "vm_area_find", "vm_area_span", "read_cs">>
\* the number of policy queries the last call made
NumQueries == Cardinality({j \in 1..Len(call.ev) : call.ev[j].call \in PolicyQueries})
KernelHalf == call.ptr \cap (52..63) # {}
Cr3OfProc == cr3 \in {call.proc.kdtb, call.proc.udtb}
\* a VMA of the process holds the address (the VMAs lie below 2^31)
InSomeVma ==
    /\ call.ptr \cap (31..63) = {}
    /\ \E v \in call.proc.vmas :
          ToNat(v.addr) <= ToNat(call.ptr) /\ ToNat(call.ptr) < ToNat(v.addr) + ToNat(v.size)

\* C15: the policy's queries follow the first walk in the order CR8, CR3, vm_area_find,
\* vm_area_span, CS, each at most once, and stop at the first predicate that fails: CR8
\* is not read for a kernel-half address or without a process, CR3 is not read when
\* IRQL >= dispatch, vm_area_find is not called when CR3 is neither proc.kdtb nor
\* proc.udtb, vm_area_span is not called when no VMA holds the address, and CS is read
\* only when all six predicates hold. On a fault-required walk each query is made as soon
\* as the predicates before it hold.
C15_PolicyQueriesInOrder ==
    Called =>
        /\ NumQueries <= 5
        /\ \A k \in 1..NumQueries : call.ev[WalkLen + k].call = QueryOrder[k]
        /\ (KernelHalf \/ call.proc.null) => Calls("read_cr8") = {}
        /\ ToNat(cr8) >= 2 => Calls("read_cr3") = {}
        /\ ~Cr3OfProc => Calls("vm_area_find") = {}
        /\ ~InSomeVma => Calls("vm_area_span") = {}
        /\ Calls("read_cs") # {} => PolicyHolds
        /\ Ref0.kind = "fault" =>
                /\ (~KernelHalf /\ ~call.proc.null) => NumQueries >= 1
                /\ (NumQueries >= 1 /\ ToNat(cr8) < 2) => NumQueries >= 2
                /\ (NumQueries >= 2 /\ Cr3OfProc) => NumQueries >= 3
                /\ (NumQueries >= 3 /\ InSomeVma) => NumQueries >= 4
                /\ PolicyHolds => NumQueries = 5
        /\ Ref0.kind # "fault" => NumQueries = 0

\* another process is running: CR8 and CR3 are read, vm_area_find is not called
C15_Witness ==
    /\ Called
    /\ Ref0.kind = "fault"
    /\ ~KernelHalf /\ ~call.proc.null /\ ToNat(cr8) < 2 /\ ~Cr3OfProc
    /\ NumQueries = 2
    /\ call.ev[Len(call.ev)].call = "read_cr3"

\* C16: on the page tables of every reachable state the walker returns, for every address
\* and dtb, nothing (walk error), {0, valid_page = false, zero_page = false} (fault
\* required) or {P, valid_page = true, zero_page = false} with P the translation; no
\* result has zero_page = true or is both resolved and fault-required, and read_page never
\* takes its zero-fill branch: it returns true only after a page transfer that succeeded.
C16_WalkResultNeverZeroPage ==
    /\ \A ptr \in Ptrs, dtb \in Dtbs :
            LET r   == virtual_to_physical(mem, ptr, call.proc, dtb)
                ref == RefWalk(mem, dtb, ptr, 30..51, 21..51)
            IN  /\ r.has <=> ref.kind # "error"
                /\ ref.kind = "fault" => r.val = [ptr |-> {}, valid_page |-> FALSE, zero_page |-> FALSE]
                /\ Resolves(ref) => r.val = [ptr |-> ref.phy, valid_page |-> TRUE, zero_page |-> FALSE]
    /\ Calls("memset") = {}
    /\ (call.op = "read_page" /\ call.ok) => (IsTransfer(LastEv) /\ LastEv.ok)

\* read_page of a page that is not present: the walk result is fault-required, the
\* buffer is not zero-filled and the call fails
C16_Witness ==
    /\ call.op = "read_page"
    /\ Ref0.kind = "fault"
    /\ LET r == virtual_to_physical(call.mem0, call.ptr, call.proc, call.dtb)
       IN  r.has /\ ~r.val.valid_page /\ ~r.val.zero_page /\ r.val.ptr = {}
    /\ Calls("memset") = {}
    /\ ~call.ok

\* the lowest bit of the frame number of the mapping the first walk resolved
FrameShift == IF Ref0.kind = "large1g" THEN 30 ELSE IF Ref0.kind = "large2m" THEN 21 ELSE 12
FrameOf(a) == a \ (0..(FrameShift - 1))

\* C17 as stated: on a resolved walk read_page and write_page make one physical transfer
\* of 4096 bytes whose first and last byte lie in the frame (or large-page mapping) the
\* walk resolved for the address, also when the address has a page offset.
C17_TransferInsideResolvedFrame ==
    (Called /\ IsPageOp /\ Resolves(Ref0)) =>
        /\ LastEv.call \in {"read_physical", "write_physical"} /\ LastEv.size = 4096
        /\ FrameOf(LastEv.addr) = FrameOf(Ref0.phy)
        /\ FrameOf(Add(LastEv.addr, U(4095))) = FrameOf(Ref0.phy)

\* C18 as stated: a call that injects a fault was given a dtb that is proc.kdtb or
\* proc.udtb, the address space CR3 was matched against.
C18_InjectsOnlyInCallersAddressSpace ==
    Injections # {} =>
        /\ Cr3OfProc
        /\ call.dtb \in {call.proc.kdtb, call.proc.udtb}

\* the page-table walks of the last call: the runs of consecutive page-table reads
Walks == {j \in 1..Len(call.ev) : IsWalkRead(call.ev[j]) /\ (j = 1 \/ ~IsWalkRead(call.ev[j - 1]))}
WalkReads == {j \in 1..Len(call.ev) : IsWalkRead(call.ev[j])}
Transfers == {j \in 1..Len(call.ev) : IsTransfer(call.ev[j])}

\* C19: a call makes a bounded sequence of external calls and returns: at most one
\* inject_interrupt, one run_to_current and one page transfer, each policy query at most
\* once, one walk of at most 4 reads (two walks in virtual_to_physical only, the second
\* after run_to_current), at most 15 external calls in all, the transfer being the last.
C19_CallIsBounded ==
    Called =>
        /\ Cardinality(Injections) <= 1
        /\ Cardinality(Calls("run_to_current")) <= 1
        /\ Cardinality(Transfers) <= 1
        /\ \A q \in PolicyQueries : Cardinality(Calls(q)) <= 1
        /\ Cardinality(Walks) \in 1..2
        /\ Cardinality(Walks) = 2 => (call.op = "virtual_to_physical" /\ InjectedOk)
        /\ Cardinality(WalkReads) <= 4 * Cardinality(Walks)
        /\ Len(call.ev) <= 15
        /\ Len(call.ev) = Cardinality(WalkReads) + NumQueries + Cardinality(Injections)
                            + Cardinality(Calls("run_to_current")) + Cardinality(Transfers)
        /\ Transfers \subseteq {Len(call.ev)}

\* the longest call: two walks of 4 reads, 5 queries, the injection and run_to_current
C19_Witness ==
    /\ call.op = "virtual_to_physical"
    /\ Cardinality(Walks) = 2 /\ Cardinality(WalkReads) = 8
    /\ Cardinality(Injections) = 1 /\ Cardinality(Calls("run_to_current")) = 1
    /\ Len(call.ev) = 15

\* the helpers of os::g_helpers whose make succeeds
Makers == {i \in 1..Len(core.env.helpers) : core.env.helpers[i]}
FirstMaker == CHOOSE i \in Makers : \A j \in Makers : i <= j
\* the setup steps before the helpers, in order, and whether each succeeds
SetupSteps == <<"FDP_OpenSHM", "FDP_Init", "make_memory", "make_state">>
StepOk == <<core.env.open, core.env.init, core.env.memory, core.env.state>>
\* the calls made by the last make_core, without the register setup of line 93
StepsMade == SelectSeq(core.ev, LAMBDA e : e[1] # "core::setup")
FailedSteps == {k \in 1..4 : ~StepOk[k]}

C20_WitnessFailure ==
    /\ core.made
    /\ FailedSteps = {4}
    /\ Makers # {}
    /\ core.ev[Len(core.ev)] = <<"make_state", 0>>
    /\ ~core.handler

====
